---------------------------- MODULE Spec2Model ----------------------------
(***************************************************************************)
(* A model of wmi-rs' src/query.rs: the query builder (build_query), the   *)
(* cursor wrapper (QueryResultEnumerator: exec_query_native_wrapper, next, *)
(* drop), the class-object wrapper (IWbemClassWrapper: new, drop) and the  *)
(* collecting query service (raw_query, query, filtered_query).            *)
(*                                                                         *)
(* The WMI provider is the environment: every foreign call (ExecQuery,     *)
(* Next) is answered nondeterministically, and every foreign call made by  *)
(* the code is appended to com_calls, in program order.                    *)
(***************************************************************************)
EXTENDS Integers, Sequences, FiniteSets, TLC

VARIABLES
    mode,        \* who drives the enumerator: "idle", "direct" (a caller of
                 \* exec_query_native_wrapper) or "raw" (inside raw_query)
    enum_state,  \* the QueryResultEnumerator: "none", "live" or "dropped"
    p_enumerator,\* its field p_enumerator : Option<Unique<IEnumWbemClassObject>>
    exec_ret,    \* exec_query_native_wrapper's call: its input, the status
                 \* ExecQuery answered if asked, and what it returned
    com_calls,   \* every foreign call made so far, in order
    trace,       \* one entry per next() call: the provider's answer and the item
    wrappers,    \* the IWbemClassWrapper values alive now
    wid,         \* number of IWbemClassWrapper values constructed so far
    rq,          \* raw_query's frame: position, collected values, result
    lp,          \* one entry per list_properties call: the wrapper's field,
                 \* GetNames' answer if asked, and what the call returned
    qb           \* the query builder's call: schema, filters, output

vars == <<mode, enum_state, p_enumerator, exec_ret, com_calls, trace, wrappers,
          wid, rq, lp, qb>>

enumVars == <<mode, enum_state, p_enumerator, exec_ret, com_calls, trace,
              wrappers, wid, rq, lp>>

-----------------------------------------------------------------------------
(* Bounds of the model.                                                     *)

\* next() calls made on one enumerator
MaxNext == 3
\* IWbemClassWrapper values a direct caller builds with IWbemClassWrapper::new
MaxNew == 1
\* entries of a filter mapping
MaxFilters == 3

\* Bound on the number of list_properties calls of a caller.
MaxList == 1

-----------------------------------------------------------------------------
(* Foreign values.                                                          *)

\* winapi::shared::ntdef::NULL
NULL == 0

\* The provider's "invalid query" status (0x80041017 as an HRESULT).
WBEM_E_INVALID_QUERY == -2147217385

\* Failure HRESULTs the provider answers with: WBEM_E_INVALID_QUERY and
\* WBEM_E_FAILED (0x80041001).  Every failure HRESULT is negative.
FailureHResults == {WBEM_E_INVALID_QUERY, -2147217407}

\* Option<Unique<T>>: Unique::new(ptr) is None for a null pointer.
None == [some |-> FALSE, ptr |-> NULL]
Some(p) == [some |-> TRUE, ptr |-> p]
Unique_new(ptr) == IF ptr = NULL THEN None ELSE Some(ptr)

\* failure::Error values of this file.
NoError == [kind |-> "none", hres |-> 0]
HResultError(hres) == [kind |-> "HResultError", hres |-> hres]
NulError == [kind |-> "NulError", hres |-> 0]
DecodeError(ptr) == [kind |-> "DecodeError", hres |-> ptr]
ConversionError == [kind |-> "ConversionError", hres |-> 0]

\* utils::check_hres: a negative HRESULT is an error carrying that HRESULT.
check_hres(hres) ==
    IF hres < 0 THEN [ok |-> FALSE, err |-> HResultError(hres)]
                ELSE [ok |-> TRUE, err |-> NoError]

\* A foreign call, as logged.
Call(obj, ptr, op) == [obj |-> obj, ptr |-> ptr, op |-> op]

\* The provider's answers to ExecQuery: success with a cursor (or with a null
\* one), or a failure status with no cursor.
ExecAnswers ==
    {[hres |-> 0, p |-> 1], [hres |-> 0, p |-> NULL]}
    \cup {[hres |-> e, p |-> NULL] : e \in FailureHResults}

\* The provider's answers to IWbemClassObject::GetNames: a status and what it
\* left in the out-parameter p_names, a fresh array a or nothing.
GetNamesAnswers(a) ==
    {[hres |-> 0, p_names |-> a]}
    \cup {[hres |-> -2147217407, p_names |-> n] : n \in {NULL, a}}

NoNames == [hres |-> 0, p_names |-> NULL]

\* The provider's answers to IEnumWbemClassObject::Next(WBEM_INFINITE, 1, ..):
\* one object (a fresh class-object pointer h), no object (WBEM_S_FALSE), or a
\* failure status.
NextAnswers(h) ==
    {[hres |-> 0, returned |-> 1, obj |-> h],
     [hres |-> 1, returned |-> 0, obj |-> NULL]}
    \cup {[hres |-> e, returned |-> 0, obj |-> NULL] : e \in FailureHResults}

NoAnswer == [hres |-> 0, returned |-> 0, obj |-> NULL]

\* IWbemClassWrapper::new
IWbemClassWrapper_new(ptr) == [inner |-> ptr]

NoWrapper == [inner |-> None]

\* Items of the iterator: Option<Result<IWbemClassWrapper, Error>>.
ItemNone == [tag |-> "None", err |-> NoError, w |-> NoWrapper]
ItemErr(e) == [tag |-> "Err", err |-> e, w |-> NoWrapper]
ItemOk(w) == [tag |-> "Ok", err |-> NoError, w |-> w]

-----------------------------------------------------------------------------
(* The operations of the file, as functions of their inputs and of the     *)
(* provider's answer.                                                       *)

\* exec_query_native_wrapper wrapping the cursor whatever status ExecQuery
\* reported.
exec_query_native_wrapper_unchecked(has_nul, ans) ==
    IF has_nul
    THEN [calls |-> <<>>, ok |-> FALSE, err |-> NulError, p_enumerator |-> None]
    ELSE [calls |-> <<Call("svc", NULL, "ExecQuery")>>, ok |-> TRUE,
          err |-> NoError, p_enumerator |-> Unique_new(ans.p)]

\* exec_query_native_wrapper: the query text converts to a wide string unless
\* it holds an interior NUL (has_nul); then ExecQuery is called and its
\* HRESULT checked; on success the cursor pointer is wrapped.
exec_query_native_wrapper(has_nul, ans) ==
    IF has_nul
    THEN [calls |-> <<>>, ok |-> FALSE, err |-> NulError, p_enumerator |-> None]
    ELSE LET res == check_hres(ans.hres)
         IN  IF ~res.ok
             THEN [calls |-> <<Call("svc", NULL, "ExecQuery")>>, ok |-> FALSE,
                   err |-> res.err, p_enumerator |-> None]
             ELSE [calls |-> <<Call("svc", NULL, "ExecQuery")>>, ok |-> TRUE,
                   err |-> NoError, p_enumerator |-> Unique_new(ans.p)]

\* next() with the failure status swallowed: the iteration just ends.
QueryResultEnumerator_next_swallows(p, ans) ==
    IF ~p.some
    THEN [calls |-> <<>>, asked |-> FALSE, p_enumerator |-> p, item |-> ItemNone]
    ELSE LET res == check_hres(ans.hres)
             item == IF ~res.ok \/ ans.returned = 0 THEN ItemNone
                     ELSE ItemOk(IWbemClassWrapper_new(Unique_new(ans.obj)))
         IN  [calls |-> <<Call("cursor", p.ptr, "Next")>>, asked |-> TRUE,
              p_enumerator |-> p, item |-> item]

\* next() releasing the cursor as soon as the provider reports no more items,
\* while the field keeps the pointer.
QueryResultEnumerator_next_releasing(p, ans) ==
    IF ~p.some
    THEN [calls |-> <<>>, asked |-> FALSE, p_enumerator |-> p, item |-> ItemNone]
    ELSE LET res == check_hres(ans.hres)
             item == IF ~res.ok THEN ItemErr(res.err)
                     ELSE IF ans.returned = 0 THEN ItemNone
                     ELSE ItemOk(IWbemClassWrapper_new(Unique_new(ans.obj)))
         IN  [calls |-> IF res.ok /\ ans.returned = 0
                        THEN <<Call("cursor", p.ptr, "Next"),
                               Call("cursor", p.ptr, "Release")>>
                        ELSE <<Call("cursor", p.ptr, "Next")>>,
              asked |-> TRUE, p_enumerator |-> p, item |-> item]

\* next() that gives the cursor up once the provider reports no more items.
QueryResultEnumerator_next_fusing(p, ans) ==
    IF ~p.some
    THEN [calls |-> <<>>, asked |-> FALSE, p_enumerator |-> p, item |-> ItemNone]
    ELSE LET res == check_hres(ans.hres)
             item == IF ~res.ok THEN ItemErr(res.err)
                     ELSE IF ans.returned = 0 THEN ItemNone
                     ELSE ItemOk(IWbemClassWrapper_new(Unique_new(ans.obj)))
         IN  [calls |-> <<Call("cursor", p.ptr, "Next")>>, asked |-> TRUE,
              p_enumerator |-> IF item.tag = "None" THEN None ELSE p,
              item |-> item]

\* <QueryResultEnumerator as Iterator>::next on an enumerator whose field is p,
\* the provider answering ans if Next is called.
QueryResultEnumerator_next(p, ans) ==
    IF ~p.some
    THEN [calls |-> <<>>, asked |-> FALSE, p_enumerator |-> p, item |-> ItemNone]
    ELSE LET res == check_hres(ans.hres)
             item == IF ~res.ok THEN ItemErr(res.err)
                     ELSE IF ans.returned = 0 THEN ItemNone
                     ELSE ItemOk(IWbemClassWrapper_new(Unique_new(ans.obj)))
         IN  [calls |-> <<Call("cursor", p.ptr, "Next")>>, asked |-> TRUE,
              p_enumerator |-> p, item |-> item]

\* drop() that forgets the cursor.
QueryResultEnumerator_drop_forgets(p) == <<>>

\* drop() that releases whatever pointer the field holds, null included.
QueryResultEnumerator_drop_unconditional(p) ==
    <<Call("cursor", p.ptr, "Release")>>

\* <QueryResultEnumerator as Drop>::drop: the foreign calls it makes.
QueryResultEnumerator_drop(p) ==
    IF p.some THEN <<Call("cursor", p.ptr, "Release")>> ELSE <<>>

\* Dropping a wrapper without releasing its object.
IWbemClassWrapper_drop_forgets(w) == <<>>

\* <IWbemClassWrapper as Drop>::drop: the foreign calls it makes.
IWbemClassWrapper_drop(w) ==
    IF w.inner.some THEN <<Call("class", w.inner.ptr, "Release")>> ELSE <<>>

\* de::wbem_class_de::from_wbem_class_obj(&w): succeeds with the decoded
\* record of that object, or fails (decodes says which).
from_wbem_class_obj(w, decodes) ==
    IF decodes THEN [ok |-> TRUE, value |-> w.inner, err |-> NoError]
               ELSE [ok |-> FALSE, value |-> None, err |-> DecodeError(w.inner.ptr)]

\* safearray::safe_array_to_vec_of_strings(p_names): the names held by the
\* array, or an error if it cannot be read (converts says which).
safe_array_to_vec_of_strings(p_names, converts) ==
    IF converts THEN [tag |-> "Ok", names |-> p_names, err |-> NoError]
                ELSE [tag |-> "Err", names |-> NULL, err |-> ConversionError]

\* IWbemClassWrapper::list_properties on the wrapper w: unwrap panics on None;
\* a failed GetNames returns at once; otherwise the array is converted, then
\* destroyed (the provider answering destroyed), and the conversion's result
\* returned unless the destruction failed.
list_properties(w, ans, converts, destroyed) ==
    IF ~w.inner.some
    THEN [calls |-> <<>>, asked |-> FALSE,
          ret |-> [tag |-> "panic", names |-> NULL, err |-> NoError]]
    ELSE LET got == check_hres(ans.hres)
             res == safe_array_to_vec_of_strings(ans.p_names, converts)
             des == check_hres(destroyed)
         IN  IF ~got.ok
             THEN [calls |-> <<Call("class", w.inner.ptr, "GetNames")>>,
                   asked |-> TRUE,
                   ret |-> [tag |-> "Err", names |-> NULL, err |-> got.err]]
             ELSE [calls |-> <<Call("class", w.inner.ptr, "GetNames"),
                               Call("array", ans.p_names, "SafeArrayDestroy")>>,
                   asked |-> TRUE,
                   ret |-> IF ~des.ok
                           THEN [tag |-> "Err", names |-> NULL, err |-> des.err]
                           ELSE res]

\* The closure raw_query maps over the enumerator's items (the item is Some).
raw_query_closure(item, decodes) ==
    IF item.tag = "Ok"
    THEN from_wbem_class_obj(item.w, decodes)
    ELSE [ok |-> FALSE, value |-> None, err |-> item.err]

\* Collecting that skips the items that failed and carries on.
collect_step_skips(frame, mapped) ==
    IF mapped.ok
    THEN [frame EXCEPT !.vec = Append(@, mapped.value), !.pc = "iter"]
    ELSE [frame EXCEPT !.pc = "iter"]

\* Collecting that puts each new value in front of the earlier ones.
collect_step_prepends(frame, mapped) ==
    IF mapped.ok
    THEN [frame EXCEPT !.vec = <<mapped.value>> \o @, !.pc = "iter"]
    ELSE [frame EXCEPT !.err = mapped.err, !.pc = "return"]

\* One step of collect::<Result<Vec<T>, Error>>() over the mapped items:
\* an Ok value is pushed, the first Err is kept and ends the iteration.
collect_step(frame, mapped) ==
    IF mapped.ok
    THEN [frame EXCEPT !.vec = Append(@, mapped.value), !.pc = "iter"]
    ELSE [frame EXCEPT !.err = mapped.err, !.pc = "return"]

\* What collect returns when the iteration has ended.
collect_result(frame) ==
    IF frame.err # NoError THEN [ok |-> FALSE, vec |-> <<>>, err |-> frame.err]
                           ELSE [ok |-> TRUE, vec |-> frame.vec, err |-> NoError]


-----------------------------------------------------------------------------
(* Helpers over the state.                                                  *)

\* The pointer the provider gives its next fresh class object: 2, 3, ..
\* (1 is the cursor).
FreshObj ==
    Cardinality({i \in 1..Len(trace) : trace[i].ans.obj # NULL}) + 2

\* The next() calls that produced an object.
Produced == {i \in 1..Len(trace) : trace[i].item.tag = "Ok"}

\* Number of logged foreign calls op on (obj, ptr).
CountCalls(obj, ptr, op) ==
    Cardinality({i \in 1..Len(com_calls) : com_calls[i] = Call(obj, ptr, op)})

\* Class-object pointers handed out by the provider so far.
HandedOut == {trace[i].ans.obj : i \in 1..Len(trace)} \ {NULL}

\* The live wrappers that own pointer h.
Owners(h) == {x \in wrappers : x.w.inner = Some(h)}

NoFrame == [pc |-> "none", vec |-> <<>>, err |-> NoError, decodes |-> <<>>,
            ret |-> [ok |-> FALSE, vec |-> <<>>, err |-> NoError]]

NoBuild == [pc |-> "none"]

-----------------------------------------------------------------------------
(* The enumerator driven by a caller of exec_query_native_wrapper.          *)

InitEnum ==
    /\ mode = "idle"
    /\ enum_state = "none"
    /\ p_enumerator = None
    /\ exec_ret = [called |-> FALSE, has_nul |-> FALSE, hres |-> 0,
                   ok |-> FALSE, err |-> NoError]
    /\ com_calls = <<>>
    /\ trace = <<>>
    /\ wrappers = {}
    /\ wid = 0
    /\ rq = NoFrame
    /\ lp = <<>>

Init == InitEnum /\ qb = NoBuild

\* The state change of a call of exec_query_native_wrapper.
ExecQuery(has_nul, ans) ==
    LET r == exec_query_native_wrapper(has_nul, ans)
    IN  /\ com_calls' = com_calls \o r.calls
        /\ exec_ret' = [called |-> TRUE, has_nul |-> has_nul,
                        hres |-> IF has_nul THEN 0 ELSE ans.hres,
                        ok |-> r.ok, err |-> r.err]
        /\ enum_state' = IF r.ok THEN "live" ELSE "none"
        /\ p_enumerator' = r.p_enumerator

\* The state change of a call of next(): the provider's answer and the item
\* are recorded; r is what next() did.
Advance(r, ans) ==
    /\ com_calls' = com_calls \o r.calls
    /\ p_enumerator' = r.p_enumerator
    /\ trace' = Append(trace, [asked |-> r.asked,
                               ans |-> IF r.asked THEN ans ELSE NoAnswer,
                               item |-> r.item])
    /\ IF r.item.tag = "Ok"
       THEN /\ wrappers' = wrappers \cup {[id |-> wid + 1, from |-> "next", w |-> r.item.w]}
            /\ wid' = wid + 1
       ELSE UNCHANGED <<wrappers, wid>>

\* A caller executes a query and keeps the enumerator.
CallExecQuery ==
    /\ mode = "idle"
    /\ mode' = "direct"
    /\ \E has_nul \in BOOLEAN, ans \in ExecAnswers : ExecQuery(has_nul, ans)
    /\ UNCHANGED <<trace, wrappers, wid, rq, lp, qb>>

\* The caller calls next() and keeps the item.
CallNext ==
    /\ mode = "direct"
    /\ enum_state = "live"
    /\ Len(trace) < MaxNext
    /\ \E ans \in NextAnswers(FreshObj) :
          Advance(QueryResultEnumerator_next(p_enumerator, ans), ans)
    /\ UNCHANGED <<mode, enum_state, exec_ret, rq, lp, qb>>

\* The caller drops the enumerator.
DropEnumerator ==
    /\ mode = "direct"
    /\ enum_state = "live"
    /\ enum_state' = "dropped"
    /\ com_calls' = com_calls \o QueryResultEnumerator_drop(p_enumerator)
    /\ UNCHANGED <<mode, p_enumerator, exec_ret, trace, wrappers, wid, rq, lp, qb>>

\* The caller drops one of the wrappers it holds.
DropWrapper ==
    /\ mode = "direct"
    /\ \E x \in wrappers :
          /\ wrappers' = wrappers \ {x}
          /\ com_calls' = com_calls \o IWbemClassWrapper_drop(x.w)
    /\ UNCHANGED <<mode, enum_state, p_enumerator, exec_ret, trace, wid, rq, lp, qb>>

\* The caller builds a wrapper with the public IWbemClassWrapper::new, from
\* None or from the public field inner of a wrapper it holds.
NewWrapper ==
    /\ mode = "direct"
    /\ wid - Cardinality(Produced) < MaxNew
    /\ \E ptr \in {None} \cup {x.w.inner : x \in wrappers} :
          wrappers' = wrappers \cup {[id |-> wid + 1, from |-> "new",
                                    w |-> IWbemClassWrapper_new(ptr)]}
    /\ wid' = wid + 1
    /\ UNCHANGED <<mode, enum_state, p_enumerator, exec_ret, com_calls, trace, rq, lp, qb>>

-----------------------------------------------------------------------------
(* raw_query, step by step.                                                 *)

\* let enumerator = self.exec_query_native_wrapper(query)?;
RawQueryExec ==
    /\ mode = "idle"
    /\ mode' = "raw"
    /\ \E has_nul \in BOOLEAN, ans \in ExecAnswers :
          /\ ExecQuery(has_nul, ans)
          /\ LET r == exec_query_native_wrapper(has_nul, ans)
             IN  rq' = IF r.ok
                       THEN [NoFrame EXCEPT !.pc = "iter"]
                       ELSE [NoFrame EXCEPT !.pc = "done",
                                !.ret = [ok |-> FALSE, vec |-> <<>>, err |-> r.err]]
    /\ UNCHANGED <<trace, wrappers, wid, lp, qb>>

\* collect pulls the next item of the mapped enumerator.  An Ok item is handed
\* to the closure; an Err item passes through the closure and ends the
\* iteration; None ends it.
RawQueryNext ==
    /\ mode = "raw"
    /\ rq.pc = "iter"
    /\ Len(trace) < MaxNext
    /\ \E ans \in NextAnswers(FreshObj) :
          LET r == QueryResultEnumerator_next(p_enumerator, ans)
          IN  /\ Advance(r, ans)
              /\ rq' = IF r.item.tag = "Ok" THEN [rq EXCEPT !.pc = "closure"]
                       ELSE IF r.item.tag = "Err"
                            THEN collect_step(rq, raw_query_closure(r.item, FALSE))
                            ELSE [rq EXCEPT !.pc = "return"]
    /\ UNCHANGED <<mode, enum_state, exec_ret, lp, qb>>

\* The closure keeping the object alive past its return.
RawQueryClosure_keeps ==
    /\ mode = "raw"
    /\ rq.pc = "closure"
    /\ \E x \in wrappers, decodes \in BOOLEAN :
          rq' = [collect_step(rq, raw_query_closure(ItemOk(x.w), decodes))
                    EXCEPT !.decodes = Append(@, [obj |-> x.w.inner, ok |-> decodes])]
    /\ UNCHANGED <<mode, enum_state, p_enumerator, exec_ret, com_calls, trace,
                   wrappers, wid, lp, qb>>

\* The closure decodes the object, which is dropped when the closure returns;
\* collect takes the mapped item.
RawQueryClosure ==
    /\ mode = "raw"
    /\ rq.pc = "closure"
    /\ \E x \in wrappers, decodes \in BOOLEAN :
          /\ wrappers' = wrappers \ {x}
          /\ com_calls' = com_calls \o IWbemClassWrapper_drop(x.w)
          /\ rq' = [collect_step(rq, raw_query_closure(ItemOk(x.w), decodes))
                        EXCEPT !.decodes = Append(@, [obj |-> x.w.inner, ok |-> decodes])]
    /\ UNCHANGED <<mode, enum_state, p_enumerator, exec_ret, trace, wid, lp, qb>>

\* collect returns; the enumerator, owned by the iterator chain, is dropped.
RawQueryReturn ==
    /\ mode = "raw"
    /\ rq.pc = "return"
    /\ rq' = [rq EXCEPT !.pc = "done", !.ret = collect_result(rq)]
    /\ enum_state' = "dropped"
    /\ com_calls' = com_calls \o QueryResultEnumerator_drop(p_enumerator)
    /\ UNCHANGED <<mode, p_enumerator, exec_ret, trace, wrappers, wid, lp, qb>>

Next ==
    \/ CallExecQuery
    \/ CallNext
    \/ DropEnumerator
    \/ DropWrapper
    \/ NewWrapper
    \/ RawQueryExec
    \/ RawQueryNext
    \/ RawQueryClosure
    \/ RawQueryReturn

Spec == Init /\ [][Next]_vars

-----------------------------------------------------------------------------
(* list_properties, called on the wrappers a caller holds, as in            *)
(* tests::it_works.                                                         *)

\* The provider's answers to SafeArrayDestroy: S_OK or DISP_E_ARRAYISLOCKED.
SafeArrayDestroyAnswers == {0, -2147352563}

\* The foreign calls made by dropping the wrappers ws, the latest made first.
RECURSIVE DropAll(_)
DropAll(ws) ==
    IF ws = {} THEN <<>>
    ELSE LET x == CHOOSE y \in ws : \A z \in ws : z.id <= y.id
         IN  IWbemClassWrapper_drop(x.w) \o DropAll(ws \ {x})

\* The caller calls list_properties on the item the last next() gave it, as
\* the loop body of tests::it_works does.  A panic unwinds the caller,
\* dropping its wrappers and then its enumerator.
ListProperties ==
    /\ mode = "direct"
    /\ Len(lp) < MaxList
    /\ trace # <<>> /\ trace[Len(trace)].item.tag = "Ok"
    /\ \E x \in {y \in wrappers : y.w = trace[Len(trace)].item.w}, ans \in GetNamesAnswers(Len(lp) + 1),
          converts \in BOOLEAN, destroyed \in SafeArrayDestroyAnswers :
          LET r == list_properties(x.w, ans, converts, destroyed)
          IN  /\ lp' = Append(lp, [inner |-> x.w.inner,
                                   ans |-> IF r.asked THEN ans ELSE NoNames,
                                   ret |-> r.ret])
              /\ IF r.ret.tag = "panic"
                 THEN /\ mode' = "panicked"
                      /\ wrappers' = {}
                      /\ enum_state' = IF enum_state = "live" THEN "dropped"
                                       ELSE enum_state
                      /\ com_calls' = com_calls \o DropAll(wrappers)
                            \o (IF enum_state = "live"
                                THEN QueryResultEnumerator_drop(p_enumerator)
                                ELSE <<>>)
                 ELSE /\ com_calls' = com_calls \o r.calls
                      /\ UNCHANGED <<mode, wrappers, enum_state>>
    /\ UNCHANGED <<p_enumerator, exec_ret, trace, wid, rq, qb>>

NextList ==
    \/ CallExecQuery
    \/ CallNext
    \/ ListProperties
    \/ DropWrapper
    \/ DropEnumerator

SpecList == Init /\ [][NextList]_vars

-----------------------------------------------------------------------------
(* The query builder.  Text is a sequence of byte values (ASCII codes), so  *)
(* that the order of strings is the byte-wise order Rust's String has.      *)

\* The literal pieces of build_query's format strings.
\* "SELECT "
T_SELECT == <<83, 69, 76, 69, 67, 84, 32>>
\* " FROM "
T_FROM == <<32, 70, 82, 79, 77, 32>>
\* " "
T_SPACE == <<32>>
\* "WHERE "
T_WHERE == <<87, 72, 69, 82, 69, 32>>
\* " AND "
T_AND == <<32, 65, 78, 68, 32>>
\* " = "
T_EQ == <<32, 61, 32>>
\* ","
T_COMMA == <<44>>
\* "\""
T_QUOTE == <<34>>
\* "true" and "false"
T_TRUE == <<116, 114, 117, 101>>
T_FALSE == <<102, 97, 108, 115, 101>>

\* FilterValue
FV_Bool(b) == [tag |-> "Bool", b |-> b, n |-> 0, s |-> <<>>]
FV_Number(n) == [tag |-> "Number", b |-> FALSE, n |-> n, s |-> <<>>]
FV_Str(s) == [tag |-> "Str", b |-> FALSE, n |-> 0, s |-> s]
FV_String(s) == [tag |-> "String", b |-> FALSE, n |-> 0, s |-> s]

\* format!("{}", n) of a non-negative integer: its decimal digits.
RECURSIVE Digits(_)
Digits(n) ==
    IF n < 10 THEN <<48 + n>> ELSE Digits(n \div 10) \o <<48 + (n % 10)>>

\* format!("{}", n) for n : i64
fmt_i64(n) == IF n < 0 THEN <<45>> \o Digits(-n) ELSE Digits(n)

\* The literal of a filter value with the quotes inside a text escaped.
RECURSIVE escape_quotes(_)
escape_quotes(s) ==
    IF s = <<>> THEN <<>>
    ELSE (IF s[1] = 34 THEN <<92, 34>> ELSE <<s[1]>>) \o escape_quotes(Tail(s))
filter_literal_escaping(filter) ==
    CASE filter.tag = "Bool" -> (IF filter.b THEN T_TRUE ELSE T_FALSE)
      [] filter.tag = "Number" -> fmt_i64(filter.n)
      [] filter.tag = "Str" -> T_QUOTE \o escape_quotes(filter.s) \o T_QUOTE
      [] filter.tag = "String" -> T_QUOTE \o escape_quotes(filter.s) \o T_QUOTE

\* The literal of a filter value (the match of build_query).
filter_literal(filter) ==
    CASE filter.tag = "Bool" -> (IF filter.b THEN T_TRUE ELSE T_FALSE)
      [] filter.tag = "Number" -> fmt_i64(filter.n)
      [] filter.tag = "Str" -> T_QUOTE \o filter.s \o T_QUOTE
      [] filter.tag = "String" -> T_QUOTE \o filter.s \o T_QUOTE

\* format!("{} = {}", field, value)
condition(field, filter) == field \o T_EQ \o filter_literal(filter)

\* The order of Rust's String (and of str): byte-wise lexicographic, a proper
\* prefix before the longer string.
StrLess(a, b) ==
    \E i \in 1..(Len(b)) :
        /\ i <= Len(a) + 1
        /\ \A j \in 1..(i - 1) : a[j] = b[j]
        /\ (i = Len(a) + 1 \/ a[i] < b[i])

\* Insert x into the sorted vector v, after the elements not greater than it.
RECURSIVE insert_sorted(_, _)
insert_sorted(v, x) ==
    IF v = <<>> THEN <<x>>
    ELSE IF StrLess(x, v[1]) THEN <<x>> \o v
    ELSE <<v[1]>> \o insert_sorted(Tail(v), x)

\* conditions.sort() left out: the vector stays in iteration order.
sort_skipped(v) == v

\* Vec<String>::sort(): the stable ascending sort.
RECURSIVE sort(_)
sort(v) ==
    IF v = <<>> THEN <<>>
    ELSE insert_sorted(sort(SubSeq(v, 1, Len(v) - 1)), v[Len(v)])

\* [String]::join(sep)
RECURSIVE join(_, _)
join(v, sep) ==
    IF v = <<>> THEN <<>>
    ELSE IF Len(v) = 1 THEN v[1]
    ELSE v[1] \o sep \o join(Tail(v), sep)

\* Option<&HashMap<String, FilterValue>>: entries is the mapping's entries in
\* the order this iteration of the HashMap yields them.
NoFilters == [some |-> FALSE, entries |-> <<>>]
SomeFilters(entries) == [some |-> TRUE, entries |-> entries]

\* The where clause without the is_empty() test.
optional_where_clause_unguarded(filters) ==
    IF ~filters.some THEN <<>>
    ELSE T_WHERE \o
         join(sort([i \in 1..Len(filters.entries) |->
                       condition(filters.entries[i].field, filters.entries[i].value)]),
              T_AND)

\* let optional_where_clause = match filters { .. }
optional_where_clause(filters) ==
    IF ~filters.some THEN <<>>
    ELSE IF filters.entries = <<>> THEN <<>>
    ELSE LET conditions ==
                 [i \in 1..Len(filters.entries) |->
                     condition(filters.entries[i].field, filters.entries[i].value)]
         IN  T_WHERE \o join(sort(conditions), T_AND)

\* The select part as the doc comment of build_query shows it: fields joined
\* by ", " and nothing after the type name.
query_text_as_documented(name, fields, where_clause) ==
    T_SELECT \o join(fields, <<44, 32>>) \o T_FROM \o name \o where_clause

\* format!("SELECT {} FROM {} {}", fields.join(","), name, optional_where_clause)
query_text(name, fields, where_clause) ==
    T_SELECT \o join(fields, T_COMMA) \o T_FROM \o name \o T_SPACE \o where_clause

\* build_query::<T>(filters), (name, fields) being struct_name_and_fields::<T>()
build_query(name, fields, filters) ==
    query_text(name, fields, optional_where_clause(filters))

\* The types T queried: Win32_OperatingSystem { Caption } and
\* Win32_OperatingSystem { Caption, Debug }.
T_Win32_OperatingSystem ==
    <<87, 105, 110, 51, 50, 95, 79, 112, 101, 114, 97, 116, 105, 110, 103,
      83, 121, 115, 116, 101, 109>>
T_Caption == <<67, 97, 112, 116, 105, 111, 110>>
T_Debug == <<68, 101, 98, 117, 103>>
Schemas ==
    {[name |-> T_Win32_OperatingSystem, fields |-> <<T_Caption>>],
     [name |-> T_Win32_OperatingSystem, fields |-> <<T_Caption, T_Debug>>]}

\* Filter fields "C2", "C10", "C1", "C3", "C4": a mapping has at most
\* MaxFilters entries, over the first MaxFilters of them.
AllFilterFields ==
    << <<67, 50>>, <<67, 49, 48>>, <<67, 49>>, <<67, 51>>, <<67, 52>> >>
FilterFields == {AllFilterFields[i] : i \in 1..MaxFilters}

\* Filter values: Bool(true), Bool(false), Number(42), Number(-7), and the
\* text a"b as Str and as String.
FilterValues ==
    {FV_Bool(TRUE), FV_Bool(FALSE), FV_Number(42), FV_Number(-7),
     FV_Str(<<97, 34, 98>>), FV_String(<<97, 34, 98>>)}

\* The HashMap<String, FilterValue> values.
FilterMaps == UNION {[D -> FilterValues] : D \in SUBSET FilterFields}

\* The orders in which a HashMap with the keys D may be iterated.
IterationOrders(D) ==
    {o \in [1..Cardinality(D) -> D] : \A i, j \in 1..Cardinality(D) : o[i] = o[j] => i = j}

\* The entries of the mapping m in the iteration order o.
Entries(m, o) == [i \in 1..Len(o) |-> [field |-> o[i], value |-> m[o[i]]]]

InitBuild ==
    /\ InitEnum
    /\ \E schema \in Schemas, m \in FilterMaps :
          qb = [pc |-> "start", name |-> schema.name, fields |-> schema.fields,
                filters |-> m, arg |-> NoFilters, text |-> <<>>]

\* build_query::<T>(None), as the tests call it
BuildQueryNone ==
    /\ qb.pc = "start"
    /\ qb' = [qb EXCEPT !.pc = "built", !.arg = NoFilters,
                        !.text = build_query(qb.name, qb.fields, NoFilters)]
    /\ UNCHANGED enumVars

\* build_query::<T>(Some(&filters)), the HashMap iterating in some order
BuildQuerySome ==
    /\ qb.pc = "start"
    /\ \E o \in IterationOrders(DOMAIN qb.filters) :
          LET arg == SomeFilters(Entries(qb.filters, o))
          IN  qb' = [qb EXCEPT !.pc = "built", !.arg = arg,
                               !.text = build_query(qb.name, qb.fields, arg)]
    /\ UNCHANGED enumVars

\* query::<T>(): the text it hands to raw_query
Query ==
    /\ qb.pc = "start"
    /\ qb' = [qb EXCEPT !.pc = "query", !.arg = NoFilters,
                        !.text = build_query(qb.name, qb.fields, NoFilters)]
    /\ UNCHANGED enumVars

\* filtered_query::<T>(&filters): the text it hands to raw_query
FilteredQuery ==
    /\ qb.pc = "start"
    /\ \E o \in IterationOrders(DOMAIN qb.filters) :
          LET arg == SomeFilters(Entries(qb.filters, o))
          IN  qb' = [qb EXCEPT !.pc = "filtered_query", !.arg = arg,
                               !.text = build_query(qb.name, qb.fields, arg)]
    /\ UNCHANGED enumVars

NextBuild ==
    \/ BuildQueryNone
    \/ BuildQuerySome
    \/ Query
    \/ FilteredQuery

SpecBuild == InitBuild /\ [][NextBuild]_vars

-----------------------------------------------------------------------------
(* Properties.                                                              *)

\* The enumerator was created holding a cursor.
HoldsCursor == enum_state # "none" /\ p_enumerator.some

\* The provider's answer "success, no object".
IsZeroItems(e) == e.asked /\ e.ans.hres >= 0 /\ e.ans.returned = 0

\* The provider's answer "failure status".
IsFailure(e) == e.asked /\ e.ans.hres \in FailureHResults

\* Positions of com_calls holding a call on the enumerator's cursor.
CursorCalls ==
    {i \in 1..Len(com_calls) :
        com_calls[i].obj = "cursor" /\ com_calls[i].ptr = p_enumerator.ptr}

CursorReleases == {i \in CursorCalls : com_calls[i].op = "Release"}

\* C1: an enumerator created with a non-null cursor has released it zero
\* times while it is alive and exactly once when it has been destroyed,
\* whatever next() calls were made on it in between.
C1_CursorReleasedOnce ==
    HoldsCursor =>
        Cardinality(CursorReleases) = IF enum_state = "dropped" THEN 1 ELSE 0

\* C1 witness: a destroyed enumerator that went through an item, a failure and
\* a zero-item answer, its cursor released once.
C1_Witness ==
    /\ HoldsCursor /\ enum_state = "dropped"
    /\ Cardinality(CursorReleases) = 1
    /\ \E i, j, k \in 1..Len(trace) :
          /\ trace[i].item.tag = "Ok"
          /\ IsFailure(trace[j])
          /\ IsZeroItems(trace[k])

\* C2: every class-object pointer handed out by a successful next() has at
\* most one owning wrapper, is released at most once, and is released exactly
\* when no wrapper owns it any more.
C2_SingleOwnerSingleRelease ==
    \A h \in HandedOut :
        /\ Cardinality(Owners(h)) <= 1
        /\ CountCalls("class", h, "Release") <= 1
        /\ (Owners(h) = {}) <=> (CountCalls("class", h, "Release") = 1)

\* The next() calls of raw_query that failed, and the error of each: a failure
\* status of the advance, or the failed decode of the object it produced.
FailedAdvance(i) == trace[i].item.tag = "Err"
FailedDecode(i) ==
    /\ trace[i].item.tag = "Ok"
    /\ \E d \in 1..Len(rq.decodes) :
          rq.decodes[d] = [obj |-> trace[i].item.w.inner, ok |-> FALSE]
Failures == {i \in 1..Len(trace) : FailedAdvance(i) \/ FailedDecode(i)}
FailureError(i) ==
    IF FailedAdvance(i) THEN HResultError(trace[i].ans.hres)
                        ELSE DecodeError(trace[i].item.w.inner.ptr)

\* C3: in raw_query, once the k-th item has failed (its advance or its
\* decode), no further next() call is made, the iteration is over, and the
\* call returns that error and no items.
C3_FailFast ==
    (mode = "raw" /\ Failures # {}) =>
        \E k \in Failures :
            /\ \A i \in Failures : k <= i
            /\ Len(trace) = k
            /\ rq.pc \in {"return", "done"}
            /\ rq.pc = "done" =>
                  rq.ret = [ok |-> FALSE, vec |-> <<>>, err |-> FailureError(k)]

\* C3 witness: raw_query has returned the decode error of its second item,
\* the first having been decoded.
C3_Witness ==
    /\ mode = "raw" /\ rq.pc = "done"
    /\ Len(trace) = 2 /\ FailedDecode(2) /\ Len(rq.vec) = 1
    /\ rq.ret.err.kind = "DecodeError"

\* C4: once the provider has answered a next() call with success and zero
\* items, every later next() call yields None.
C4_ExhaustionTerminal ==
    \A i, j \in 1..Len(trace) :
        (i < j /\ IsZeroItems(trace[i])) => trace[j].item.tag = "None"

\* C5: a next() call the provider answers with a failure status yields
\* Some(Err) carrying that status, and calls Next once.
C5_FailureSurfaced ==
    /\ \A i \in 1..Len(trace) :
          IsFailure(trace[i]) =>
              trace[i].item = ItemErr(HResultError(trace[i].ans.hres))
    /\ Cardinality({i \in CursorCalls : com_calls[i].op = "Next"})
          = Cardinality({i \in 1..Len(trace) : trace[i].asked})

\* C5 witness: the provider has answered "invalid query" after an item.
C5_Witness ==
    \E i \in 2..Len(trace) :
        /\ trace[i].asked
        /\ trace[i].ans.hres = WBEM_E_INVALID_QUERY
        /\ trace[i].item.tag = "Err"

\* The wrappers alive now that a next() call produced.
AliveFromNext == {x \in wrappers : x.from = "next"}

\* The step is a next() call.
IsAdvance == Len(trace') = Len(trace) + 1

\* C6 (as stated): no next() call is made while an object produced by an
\* earlier next() call of the enumerator is alive.
C6_NeverAdvanceWhileAlive ==
    [][IsAdvance => AliveFromNext = {}]_vars

\* C6 (amended): inside raw_query at most one object is alive at any moment,
\* and at every next() call none is: each object handed out before has been
\* released, once.
C6_RawQueryOneAtATime ==
    /\ [](mode = "raw" => Cardinality(wrappers) <= 1)
    /\ [][(mode = "raw" /\ IsAdvance) =>
              /\ wrappers = {}
              /\ \A h \in HandedOut : CountCalls("class", h, "Release") = 1]_vars

\* C6 witness: raw_query is about to make its third next() call, two objects
\* having been handed out and released.
C6_Witness ==
    /\ mode = "raw" /\ rq.pc = "iter" /\ Len(trace) = 2
    /\ Cardinality(HandedOut) = 2
    /\ wrappers = {}

\* C7: no foreign call on the cursor follows its Release, and once it is
\* released the enumerator yields no further item.
C7_NoUseAfterRelease ==
    /\ [](\A i \in CursorReleases : \A j \in CursorCalls : j <= i)
    /\ [][CursorReleases # {} => trace' = trace]_vars

\* C7 witness: the cursor has been released after next() calls that went
\* past a zero-item answer.
C7_Witness ==
    /\ CursorReleases # {}
    /\ Len(trace) >= 2 /\ IsZeroItems(trace[1])

\* build_query has been called (by a test, by query or by filtered_query).
Built == qb.pc \in {"built", "query", "filtered_query"}

\* The rendered conditions of the mapping m, in the order o of its fields.
Rendered(m, o) == [i \in 1..Len(o) |-> condition(o[i], m[o[i]])]

\* v is in ascending order.
Ascending(v) == \A i \in 1..(Len(v) - 1) : StrLess(v[i], v[i + 1])

\* C8: for a non-empty filter mapping the query text is the select part
\* followed by "WHERE " and the mapping's rendered conditions in ascending
\* lexicographic order joined by " AND ": a text that depends on the mapping
\* alone, not on the order in which the mapping was iterated.
C8_WhereSortedDeterministic ==
    (Built /\ qb.arg.some /\ qb.arg.entries # <<>>) =>
        \E o \in IterationOrders(DOMAIN qb.filters) :
            /\ Ascending(Rendered(qb.filters, o))
            /\ qb.text = query_text(qb.name, qb.fields,
                             T_WHERE \o join(Rendered(qb.filters, o), T_AND))

\* C8 witness: a mapping of three entries was iterated in an order that is not
\* the ascending one.
C8_Witness ==
    /\ qb.pc = "built" /\ qb.arg.some /\ Len(qb.arg.entries) = 3
    /\ LET given == [i \in 1..3 |->
                        condition(qb.arg.entries[i].field, qb.arg.entries[i].value)]
       IN  StrLess(given[3], given[2]) /\ StrLess(given[2], given[1])

\* text holds token.
Contains(text, token) ==
    \E i \in 1..(Len(text) - Len(token) + 1) :
        SubSeq(text, i, i + Len(token) - 1) = token

\* C9: with no filter argument or an empty mapping the text holds no WHERE
\* token and is the text query::<T>() executes.
C9_NoWhereWithoutFilters ==
    (Built /\ (~qb.arg.some \/ qb.arg.entries = <<>>)) =>
        /\ ~Contains(qb.text, <<87, 72, 69, 82, 69>>)
        /\ qb.text = build_query(qb.name, qb.fields, NoFilters)

\* C9 witness: filtered_query was called with an empty mapping.
C9_Witness ==
    /\ qb.pc = "filtered_query" /\ qb.arg.some /\ qb.arg.entries = <<>>
    /\ qb.filters = <<>>

\* The field names in declared order, separated by ",".
RECURSIVE FieldList(_, _)
FieldList(fields, n) ==
    IF n = 0 THEN <<>>
    ELSE IF n = 1 THEN fields[1]
    ELSE FieldList(fields, n - 1) \o <<44>> \o fields[n]

RECURSIVE DecimalValue(_)
DecimalValue(d) ==
    IF d = <<>> THEN 0
    ELSE 10 * DecimalValue(SubSeq(d, 1, Len(d) - 1)) + (d[Len(d)] - 48)

\* d is the decimal numeral of the natural number n.
IsDecimal(d, n) ==
    /\ Len(d) >= 1
    /\ \A i \in 1..Len(d) : d[i] \in 48..57
    /\ Len(d) > 1 => d[1] # 48
    /\ DecimalValue(d) = n

\* lit is the literal the filter value v is to be rendered as.
IsLiteralOf(lit, v) ==
    CASE v.tag = "Bool" ->
            lit = (IF v.b THEN <<116, 114, 117, 101>> ELSE <<102, 97, 108, 115, 101>>)
      [] v.tag = "Number" ->
            IF v.n < 0 THEN /\ Len(lit) >= 2 /\ lit[1] = 45
                            /\ IsDecimal(Tail(lit), -v.n)
                       ELSE IsDecimal(lit, v.n)
      [] v.tag \in {"Str", "String"} -> lit = <<34>> \o v.s \o <<34>>

\* C11: every filter entry (field, value) appears in the text as the condition
\* field, " = ", literal, the literal being true/false for a Bool, the decimal
\* numeral (with a leading '-' if negative) for a Number, and the content
\* between double quotes, unchanged, for a Str and for a String alike.
C11_ConditionRendering ==
    (Built /\ qb.arg.some) =>
        \A i \in 1..Len(qb.arg.entries) :
            LET e == qb.arg.entries[i]
                c == condition(e.field, e.value)
                n == Len(e.field) + 3
            IN  /\ Len(c) > n
                /\ SubSeq(c, 1, n) = e.field \o <<32, 61, 32>>
                /\ IsLiteralOf(SubSeq(c, n + 1, Len(c)), e.value)
                /\ Contains(qb.text, c)
                /\ \A v \in FilterValues :
                      (v.tag \in {"Str", "String"} /\ e.value.tag \in {"Str", "String"}
                          /\ v.s = e.value.s) => condition(e.field, v) = c

\* C11 witness: a text built from a negative Number, a Bool(true) and a
\* String holding a double quote.
C11_Witness ==
    /\ qb.pc = "built" /\ qb.arg.some /\ Len(qb.arg.entries) = 3
    /\ \E i, j, k \in 1..3 :
          /\ qb.arg.entries[i].value = FV_Number(-7)
          /\ qb.arg.entries[j].value = FV_Bool(TRUE)
          /\ qb.arg.entries[k].value = FV_String(<<97, 34, 98>>)
    /\ Contains(qb.text, <<32, 61, 32, 45, 55>>)

\* C12: for Win32_OperatingSystem with the fields Caption and Debug and no
\* filters the text is "SELECT Caption, Debug FROM Win32_OperatingSystem".
C12_DocumentedText ==
    (Built /\ ~qb.arg.some /\ qb.name = T_Win32_OperatingSystem
        /\ qb.fields = <<T_Caption, T_Debug>>) =>
        qb.text = <<83, 69, 76, 69, 67, 84, 32, 67, 97, 112, 116, 105, 111, 110,
                    44, 32, 68, 101, 98, 117, 103, 32, 70, 82, 79, 77, 32, 87,
                    105, 110, 51, 50, 95, 79, 112, 101, 114, 97, 116, 105, 110,
                    103, 83, 121, 115, 116, 101, 109>>

\* raw_query has returned.
RawQueryDone == mode = "raw" /\ rq.pc = "done"

\* Positions of com_calls holding a Next call on the enumerator's cursor.
NextCalls == {i \in CursorCalls : com_calls[i].op = "Next"}

\* C13: when raw_query has returned, whatever the exit path, no wrapper is
\* left alive, the cursor obtained from ExecQuery has been released exactly
\* once, and every class object the provider handed out has been released
\* exactly once, the one whose decode failed included; a call that got no
\* cursor has released nothing.
C13_RawQueryReleasesAll ==
    RawQueryDone =>
        /\ wrappers = {}
        /\ HoldsCursor => Cardinality(CursorReleases) = 1
        /\ ~HoldsCursor =>
              \A i \in 1..Len(com_calls) : com_calls[i].op # "Release"
        /\ \A h \in HandedOut : CountCalls("class", h, "Release") = 1
        /\ \A i \in 1..Len(rq.decodes) :
              CountCalls("class", rq.decodes[i].obj.ptr, "Release") = 1

\* C13 witness: raw_query has returned after the decode of its second item
\* failed, both objects and the cursor released once each.
C13_Witness ==
    /\ RawQueryDone /\ HoldsCursor
    /\ Len(rq.decodes) = 2 /\ rq.decodes[1].ok /\ ~rq.decodes[2].ok
    /\ Cardinality(HandedOut) = 2
    /\ \A h \in HandedOut : CountCalls("class", h, "Release") = 1
    /\ Cardinality(CursorReleases) = 1

\* The provider supplied n items and then a zero-item success answer, and
\* every decode succeeded.
SuppliedThenDone(n) ==
    /\ Len(trace) = n + 1
    /\ \A i \in 1..n : trace[i].ans.hres = 0 /\ trace[i].ans.returned = 1
    /\ IsZeroItems(trace[n + 1])
    /\ \A i \in 1..Len(rq.decodes) : rq.decodes[i].ok

\* C14: if the provider supplies N items and then a zero-item success answer
\* and every decode succeeds, raw_query returns Ok with N elements, the i-th
\* being the decode of the i-th item supplied, after exactly N+1 Next calls,
\* the last of them made before the cursor is released; and raw_query never
\* returns Ok before an advance has yielded None.
C14_AllItemsInOrder ==
    RawQueryDone =>
        /\ \A n \in 0..MaxNext :
              SuppliedThenDone(n) =>
                  /\ rq.ret.ok /\ rq.ret.err = NoError
                  /\ Len(rq.ret.vec) = n
                  /\ \A i \in 1..n : rq.ret.vec[i] = Some(trace[i].ans.obj)
                  /\ Len(rq.decodes) = n
                  /\ Cardinality(NextCalls) = n + 1
                  /\ \A i \in NextCalls : \A j \in CursorReleases : i < j
        /\ (exec_ret.ok /\ rq.ret.ok) =>
              /\ Len(trace) >= 1
              /\ trace[Len(trace)].item.tag = "None"

\* C14 witness: raw_query has returned two elements after two items and a
\* zero-item answer.
C14_Witness ==
    /\ RawQueryDone /\ SuppliedThenDone(2)
    /\ rq.ret.ok /\ Len(rq.ret.vec) = 2
    /\ rq.ret.vec[1] # rq.ret.vec[2]

\* C15: once the provider has answered a Next call with success and zero
\* items, no later next() calls Next on the cursor again.
C15_NoNextAfterZero ==
    \A i, j \in 1..Len(trace) :
        (i < j /\ IsZeroItems(trace[i])) => ~trace[j].asked

\* C16: once a next() has yielded the error of a failure status, every later
\* next() yields None, so an enumerator of an invalid query yields exactly
\* one item.
C16_ErrorTerminal ==
    \A i, j \in 1..Len(trace) :
        (i < j /\ IsFailure(trace[i])) => trace[j].item.tag = "None"

\* C19: an enumerator made from a successful ExecQuery that supplied a null
\* cursor holds no handle: its next() calls yield None without asking the
\* provider, and neither they nor its drop make a call on the cursor; no
\* foreign call is ever made on a null cursor or a null class object, so a
\* wrapper holding None releases nothing when dropped.
C19_NullHandlesUntouched ==
    /\ (enum_state # "none" /\ ~p_enumerator.some) =>
          /\ exec_ret.ok
          /\ \A i \in 1..Len(trace) :
                ~trace[i].asked /\ trace[i].item = ItemNone
          /\ \A i \in 1..Len(com_calls) : com_calls[i].obj # "cursor"
    /\ \A i \in 1..Len(com_calls) :
          com_calls[i].obj \in {"cursor", "class"} => com_calls[i].ptr # NULL
    /\ Produced = {} =>
          \A i \in 1..Len(com_calls) : com_calls[i].obj # "class"

\* C19 witness: a null-cursor enumerator was advanced and dropped, and a
\* wrapper holding None was made and dropped, with ExecQuery the only
\* foreign call.
C19_Witness ==
    /\ enum_state = "dropped" /\ ~p_enumerator.some /\ exec_ret.ok
    /\ Len(trace) >= 1
    /\ wid = 1 /\ wrappers = {}
    /\ com_calls = <<Call("svc", NULL, "ExecQuery")>>

\* The cursor releases logged so far, with their pointers.
ReleasesOfCursor ==
    {i \in 1..Len(com_calls) :
        com_calls[i].obj = "cursor" /\ com_calls[i].op = "Release"}

\* C20: a next() call leaves the enumerator's cursor field as it was and
\* releases no cursor, whatever the provider answers; when the answer is
\* zero items or a failure status no wrapper is made.
C20_AdvanceFrame ==
    [][IsAdvance =>
          /\ p_enumerator' = p_enumerator
          /\ enum_state' = enum_state
          /\ ReleasesOfCursor' = ReleasesOfCursor
          /\ trace'[Len(trace')].item.tag # "Ok" =>
                wrappers' = wrappers /\ wid' = wid
          /\ trace'[Len(trace')].item.tag = "Ok" =>
                /\ trace'[Len(trace')].ans.returned = 1
                /\ Cardinality(wrappers') = Cardinality(wrappers) + 1]_vars

\* C20 witness: after a zero-item answer and a failure answer the enumerator
\* still holds its cursor, unreleased, and no wrapper was made.
C20_Witness ==
    /\ enum_state = "live" /\ p_enumerator.some /\ mode = "direct"
    /\ \E i, j \in 1..Len(trace) : IsZeroItems(trace[i]) /\ IsFailure(trace[j])
    /\ wid = 0 /\ wrappers = {}
    /\ ReleasesOfCursor = {}

\* Positions of com_calls holding an ExecQuery call.
ExecQueryCalls == {i \in 1..Len(com_calls) : com_calls[i].op = "ExecQuery"}

\* C18: exec_query_native_wrapper returns an enumerator exactly when the text
\* converts and ExecQuery reports success.  Text that does not convert gives
\* an error with no foreign call made; a failure status gives an error
\* carrying that status, after one ExecQuery call.  After either error there
\* is no enumerator: no cursor is held, and none is ever advanced or
\* released.
C18_ExecQueryErrors ==
    exec_ret.called =>
        /\ exec_ret.ok <=> (~exec_ret.has_nul /\ exec_ret.hres >= 0)
        /\ exec_ret.ok => exec_ret.err = NoError /\ enum_state # "none"
        /\ exec_ret.has_nul =>
              exec_ret.err = NulError /\ ExecQueryCalls = {}
        /\ ~exec_ret.has_nul => Cardinality(ExecQueryCalls) = 1
        /\ (~exec_ret.has_nul /\ exec_ret.hres < 0) =>
              exec_ret.err = [kind |-> "HResultError", hres |-> exec_ret.hres]
        /\ ~exec_ret.ok =>
              /\ enum_state = "none" /\ p_enumerator = None
              /\ trace = <<>>
              /\ \A i \in 1..Len(com_calls) : com_calls[i].obj = "svc"
              /\ mode = "raw" =>
                    rq.pc = "done" /\ rq.ret = [ok |-> FALSE, vec |-> <<>>,
                                                err |-> exec_ret.err]

\* C18 witness: ExecQuery answered with WBEM_E_INVALID_QUERY; the caller got
\* that error and no enumerator, and has since made and dropped a wrapper of
\* its own.
C18_Witness ==
    /\ exec_ret.called /\ ~exec_ret.ok /\ ~exec_ret.has_nul
    /\ exec_ret.err = [kind |-> "HResultError", hres |-> WBEM_E_INVALID_QUERY]
    /\ enum_state = "none" /\ p_enumerator = None
    /\ mode = "direct" /\ wid = 1 /\ wrappers = {}

\* The list_properties calls in which GetNames was asked and left an array.
ArrayProduced == {i \in 1..Len(lp) : lp[i].ans.p_names # NULL}

ListPropertiesDestroysOnSuccess ==
    \A i \in 1..Len(lp) :
        /\ lp[i].ret.tag # "panic"
        /\ CountCalls("class", lp[i].inner.ptr, "GetNames") >= 1
        /\ lp[i].ans.hres >= 0 =>
              CountCalls("array", lp[i].ans.p_names, "SafeArrayDestroy") = 1
        /\ (lp[i].ans.hres < 0 /\ lp[i].ans.p_names # NULL) =>
              CountCalls("array", lp[i].ans.p_names, "SafeArrayDestroy") = 0

=============================================================================
